---- MODULE Spec2Model ----
(***************************************************************************)
(* Model of the Sea Salt & Paper scoring engine (src/utils/game_logic.py): *)
(* calculate_score and calculate_color_bonus.                              *)
(*                                                                         *)
(* A card text is a sequence of items <<count, word>>: the places of the   *)
(* text where an integer is followed by whitespace, in text order, the     *)
(* word being the characters that follow the whitespace up to the next     *)
(* item.  A word is a sequence of characters, a character is its Unicode   *)
(* code point: "2 crabs, 3 shells" is << <<2, Chars("crabs, ")>>,          *)
(* <<3, Chars("shells")>> >>.  A dict is a function whose DOMAIN is the    *)
(* set of keys present.                                                    *)
(***************************************************************************)
EXTENDS Integers, Sequences, FiniteSets, TLC

VARIABLES card_text, called_last_chance, caller, caller_succeeded, pc, result,
          user_data, sent

vars == <<card_text, called_last_chance, caller, caller_succeeded, pc, result,
          user_data, sent>>

(***************************************************************************)
(* Bounds of the inputs.                                                   *)
(***************************************************************************)
MaxCount == 3
BigCount == 10
MaxColors == 3
MaxColorCount == 4
MaxCommands == 3
MaxBotCount == 2

Counts == (0..MaxCount) \cup {BigCount}

(***************************************************************************)
(* Generic helpers for Python built-ins.                                   *)
(***************************************************************************)
Min(a, b) == IF a <= b THEN a ELSE b

\* dict.get(key, default)
Get(d, k, default) == IF k \in DOMAIN d THEN d[k] ELSE default

\* 0-based list indexing
At(list, i) == list[i + 1]

EmptyDict == [k \in {} |-> 0]

(***************************************************************************)
(* Tables of game_logic.py.                                                *)
(***************************************************************************)
SHELL_POINTS == <<0, 0, 2, 4, 6, 8, 10>>
OCTOPUS_POINTS == <<0, 0, 3, 6, 9, 12>>
PENGUIN_POINTS == <<0, 1, 3, 5>>
SAILOR_POINTS == <<0, 0, 5>>

COLLECTOR_POINTS_MAP ==
    [c \in {"shell", "octopus", "penguin", "sailor"} |->
        CASE c = "shell" -> SHELL_POINTS
          [] c = "octopus" -> OCTOPUS_POINTS
          [] c = "penguin" -> PENGUIN_POINTS
          [] c = "sailor" -> SAILOR_POINTS]

COLLECTOR_TYPES == <<"shell", "octopus", "penguin", "sailor">>

CARD_MAP ==
    ("crab" :> "crab") @@ ("crabs" :> "crab") @@
    ("boat" :> "boat") @@ ("boats" :> "boat") @@
    ("fish" :> "fish") @@
    ("swimmer" :> "swimmer") @@
    ("shark" :> "shark") @@
    ("shell" :> "shell") @@ ("shells" :> "shell") @@
    ("octopus" :> "octopus") @@ ("octopuses" :> "octopus") @@
    ("penguin" :> "penguin") @@ ("penguins" :> "penguin") @@
    ("sailor" :> "sailor") @@ ("sailors" :> "sailor") @@
    ("lighthouse" :> "lighthouse") @@
    ("shoal" :> "shoal") @@ ("shoal of fish" :> "shoal") @@
    ("colony" :> "colony") @@ ("penguin colony" :> "colony") @@
    ("captain" :> "captain") @@
    ("basket" :> "basket") @@ ("basket of crabs" :> "basket") @@
    ("jellyfish" :> "jellyfish") @@ ("jellyfishes" :> "jellyfish") @@
    ("seahorse" :> "seahorse") @@
    ("starfish" :> "starfish") @@
    ("lobster" :> "lobster")

(***************************************************************************)
(* Characters.  The alphabet is ASCII and the characters outside ASCII     *)
(* that take part in the case rules of an ASCII letter: U+0130, U+0131,    *)
(* U+017F, U+212A, and U+0307, which lower() puts after the i of U+0130.   *)
(***************************************************************************)
LowerAlpha == "abcdefghijklmnopqrstuvwxyz"
UpperAlpha == "ABCDEFGHIJKLMNOPQRSTUVWXYZ"

\* ord(ch) of a one-character string: an ASCII letter, the space or the comma
Ord(ch) ==
    IF ch = " " THEN 32
    ELSE IF ch = "," THEN 44
    ELSE IF \E i \in 1..Len(LowerAlpha) : SubSeq(LowerAlpha, i, i) = ch
         THEN 96 + (CHOOSE i \in 1..Len(LowerAlpha) : SubSeq(LowerAlpha, i, i) = ch)
         ELSE 64 + (CHOOSE i \in 1..Len(UpperAlpha) : SubSeq(UpperAlpha, i, i) = ch)

\* the characters of a string of ASCII letters, spaces and commas
RECURSIVE Chars(_)
Chars(s) == IF Len(s) = 0 THEN <<>> ELSE <<Ord(Head(s))>> \o Chars(Tail(s))

\* [a-zA-Z]
IsAsciiLetter(c) == c \in 65..90 \/ c \in 97..122

\* str.isspace() on the alphabet
IsSpace(c) == c = 32 \/ c \in 9..13 \/ c \in 28..31

\* str.lower() of one character: U+0130 becomes i and U+0307, U+212A becomes k
LowerChar(c) ==
    CASE c \in 65..90 -> <<c + 32>>
      [] c = 304 -> <<105, 775>>
      [] c = 8490 -> <<107>>
      [] OTHER -> <<c>>

\* str.lower()
RECURSIVE Lower(_)
Lower(w) == IF w = <<>> THEN <<>> ELSE LowerChar(Head(w)) \o Lower(Tail(w))

\* str.strip()
RECURSIVE Strip(_)
Strip(w) ==
    IF w = <<>> THEN w
    ELSE IF IsSpace(Head(w)) THEN Strip(Tail(w))
    ELSE IF IsSpace(w[Len(w)]) THEN Strip(SubSeq(w, 1, Len(w) - 1))
    ELSE w

\* re.IGNORECASE: the lower-case ASCII letter of a pattern that a character
\* of the text matches (U+0130 and U+0131 match i, U+017F s, U+212A k)
IgnoreCase(c) ==
    CASE c \in 65..90 -> c + 32
      [] c \in {304, 305} -> 105
      [] c = 383 -> 115
      [] c = 8490 -> 107
      [] OTHER -> c

(***************************************************************************)
(* calculate_score: parsing.                                               *)
(***************************************************************************)
\* the keys of CARD_MAP as character sequences, and CARD_MAP on them
CardChars == [k \in DOMAIN CARD_MAP |-> Chars(k)]
CardNames == { CardChars[k] : k \in DOMAIN CARD_MAP }
NameLengths == { Len(name) : name \in CardNames }
CardOfChars ==
    [name \in CardNames |-> CARD_MAP[CHOOSE k \in DOMAIN CARD_MAP : CardChars[k] = name]]

\* a word as the pattern sees it under re.IGNORECASE
RECURSIVE Folded(_)
Folded(w) == IF w = <<>> THEN <<>> ELSE <<IgnoreCase(Head(w))>> \o Folded(Tail(w))

\* the length of the longest card name
LongestName == CHOOSE n \in NameLengths : \A m \in NameLengths : m <= n

\* the alternatives of card_pattern are tried longest first (line 44): the
\* length of the longest card name, of at most n characters, that the start
\* of a word is; 0 when it is none
RECURSIVE FirstFit(_, _)
FirstFit(folded, n) ==
    IF n = 0 THEN 0
    ELSE IF SubSeq(folded, 1, n) \in CardNames THEN n
    ELSE FirstFit(folded, n - 1)

\* the length of the card name the pattern matches at the start of a word
\* (lines 44-46)
MatchLen(word) ==
    LET n == Min(Len(word), LongestName)
    IN  FirstFit(Folded(SubSeq(word, 1, n)), n)

\* pattern.findall (line 47): <<count, name>> of every item whose word starts
\* with a card name, the name as the text spells it
RECURSIVE FindCards(_)
FindCards(text) ==
    IF text = <<>> THEN <<>>
    ELSE LET count == Head(text)[1]
             word == Head(text)[2]
             n == MatchLen(word)
         IN  (IF n > 0 THEN << <<count, SubSeq(word, 1, n)>> >> ELSE <<>>)
                 \o FindCards(Tail(text))

\* CARD_MAP.get(name.lower().strip()) (line 53): <<>> for None, else the
\* one-element list of the canonical name
canonical_name(name) ==
    LET key == Strip(Lower(name))
    IN  IF key \in CardNames THEN <<CardOfChars[key]>> ELSE <<>>

\* card_counts[canonical_name] += int(count) on a defaultdict(int)
AddCount(cc, k, n) ==
    IF k \in DOMAIN cc THEN [cc EXCEPT ![k] = @ + n] ELSE cc @@ (k :> n)

\* the for loop over matches (lines 52-55)
RECURSIVE CountCards(_, _, _)
CountCards(cc, matches, i) ==
    IF i > Len(matches) THEN cc
    ELSE LET canonical == canonical_name(matches[i][2])
         IN  CountCards(IF canonical # <<>>
                        THEN AddCount(cc, canonical[1], matches[i][1])
                        ELSE cc,
                        matches, i + 1)

\* a breakdown line: the rule, what it is about, the count shown, the points
Line(rule, card, n, pts) == [rule |-> rule, card |-> card, n |-> n, pts |-> pts]

AppendIf(bd, cond, line) == IF cond THEN Append(bd, line) ELSE bd

(***************************************************************************)
(* calculate_score: the scoring steps, each a function of the running      *)
(* state st = [card_counts, total_score, score_breakdown].                 *)
(***************************************************************************)
\* marginal gain of one more card of a collector type (lines 66-71)
Gain(cc, collector_type) ==
    LET current_count == cc[collector_type]
        new_count == current_count + 1
        points_array == COLLECTOR_POINTS_MAP[collector_type]
        current_points_index == Min(current_count, Len(points_array) - 1)
        new_points_index == Min(new_count, Len(points_array) - 1)
    IN  At(points_array, new_points_index) - At(points_array, current_points_index)

\* the for loop over COLLECTOR_TYPES (lines 62-74); acc = [max_gain, best]
RECURSIVE BestCollector(_, _, _)
BestCollector(cc, i, acc) ==
    IF i > Len(COLLECTOR_TYPES) THEN acc
    ELSE LET collector_type == COLLECTOR_TYPES[i] IN
         IF Get(cc, collector_type, 0) > 0 /\ Gain(cc, collector_type) > acc.max_gain
         THEN BestCollector(cc, i + 1,
                  [max_gain |-> Gain(cc, collector_type), best |-> collector_type])
         ELSE BestCollector(cc, i + 1, acc)

\* the seahorse block (lines 61-79): one pass, not a loop over the seahorses
ApplySeahorse(st) ==
    LET cc == st.card_counts IN
    IF "seahorse" \in DOMAIN cc /\ cc["seahorse"] > 0
    THEN LET acc == BestCollector(cc, 1, [max_gain |-> -1, best |-> "None"]) IN
         IF acc.best # "None" /\ acc.max_gain > 0
         THEN [st EXCEPT
                 !.card_counts = [cc EXCEPT !["seahorse"] = @ - 1,
                                            ![acc.best] = @ + 1],
                 !.score_breakdown = Append(@, Line("seahorse", acc.best, 1, acc.max_gain))]
         ELSE st
    ELSE st

\* as ScoreCollectors, reporting the count before clamping
RECURSIVE ScoreCollectors_RawCount(_, _)
ScoreCollectors_RawCount(st, i) ==
    IF i > Len(COLLECTOR_TYPES) THEN st
    ELSE LET card == COLLECTOR_TYPES[i]
             points_list == COLLECTOR_POINTS_MAP[card]
         IN  IF card \in DOMAIN st.card_counts
             THEN LET count == st.card_counts[card]
                      points == At(points_list, Min(count, Len(points_list) - 1))
                  IN  ScoreCollectors_RawCount(
                        [st EXCEPT !.total_score = @ + points,
                                   !.score_breakdown = Append(@, Line("collector", card, count, points))],
                        i + 1)
             ELSE ScoreCollectors_RawCount(st, i + 1)

\* scoring collector sets (lines 82-87)
RECURSIVE ScoreCollectors(_, _)
ScoreCollectors(st, i) ==
    IF i > Len(COLLECTOR_TYPES) THEN st
    ELSE LET card == COLLECTOR_TYPES[i]
             points_list == COLLECTOR_POINTS_MAP[card]
         IN  IF card \in DOMAIN st.card_counts
             THEN LET count == Min(st.card_counts[card], Len(points_list) - 1)
                      points == At(points_list, count)
                  IN  ScoreCollectors(
                        [st EXCEPT !.total_score = @ + points,
                                   !.score_breakdown = Append(@, Line("collector", card, count, points))],
                        i + 1)
             ELSE ScoreCollectors(st, i + 1)

DUO_CARDS == <<"crab", "boat", "fish">>

\* as ScoreDuos, rounding the number of pairs up
RECURSIVE ScoreDuos_RoundUp(_, _)
ScoreDuos_RoundUp(st, i) ==
    IF i > Len(DUO_CARDS) THEN st
    ELSE LET card == DUO_CARDS[i] IN
         IF card \in DOMAIN st.card_counts /\ (st.card_counts[card] + 1) \div 2 > 0
         THEN LET pairs == (st.card_counts[card] + 1) \div 2 IN
              ScoreDuos_RoundUp(
                  [st EXCEPT !.total_score = @ + pairs,
                             !.score_breakdown = Append(@, Line("pairs", card, pairs, pairs))],
                  i + 1)
         ELSE ScoreDuos_RoundUp(st, i + 1)

\* duo cards, one point per pair (lines 90-95)
RECURSIVE ScoreDuos(_, _)
ScoreDuos(st, i) ==
    IF i > Len(DUO_CARDS) THEN st
    ELSE LET card == DUO_CARDS[i] IN
         IF card \in DOMAIN st.card_counts /\ st.card_counts[card] \div 2 > 0
         THEN LET pairs == st.card_counts[card] \div 2 IN
              ScoreDuos([st EXCEPT !.total_score = @ + pairs,
                                   !.score_breakdown = Append(@, Line("pairs", card, pairs, pairs))],
                        i + 1)
         ELSE ScoreDuos(st, i + 1)

\* as ScoreSwimmerCombos, not taking the sharks' swimmers off the count
ScoreSwimmerCombos_SwimmersKept(st) ==
    LET cc == st.card_counts
        sharks == Get(cc, "shark", 0)
        swimmers0 == Get(cc, "swimmer", 0)
        jellyfish == Get(cc, "jellyfish", 0)
        shark_hit == sharks > 0 /\ swimmers0 > 0
        shark_combos == IF shark_hit THEN Min(sharks, swimmers0) ELSE 0
        jelly_hit == jellyfish > 0 /\ swimmers0 > 0
        jelly_combos == IF jelly_hit THEN Min(jellyfish, swimmers0) ELSE 0
        swimmers2 == swimmers0 - jelly_combos
        leftover_sharks == sharks - Min(sharks, swimmers0)
        leftover_jellyfish == jellyfish - Min(jellyfish, swimmers0)
        bd1 == AppendIf(st.score_breakdown, shark_hit,
                        Line("combo", "shark_swimmer", shark_combos, shark_combos))
        bd2 == AppendIf(bd1, leftover_sharks > 0, Line("leftover", "shark", leftover_sharks, 0))
        bd3 == AppendIf(bd2, jelly_hit,
                        Line("combo", "jellyfish_swimmer", jelly_combos, jelly_combos))
        bd4 == AppendIf(bd3, leftover_jellyfish > 0,
                        Line("leftover", "jellyfish", leftover_jellyfish, 0))
        bd5 == AppendIf(bd4, swimmers2 > 0, Line("leftover", "swimmer", swimmers2, 0))
    IN  [st EXCEPT !.total_score = @ + shark_combos + jelly_combos,
                   !.score_breakdown = bd5]

\* Shark+Swimmer and Jellyfish+Swimmer (lines 98-125)
ScoreSwimmerCombos(st) ==
    LET cc == st.card_counts
        sharks == Get(cc, "shark", 0)
        swimmers0 == Get(cc, "swimmer", 0)
        jellyfish == Get(cc, "jellyfish", 0)
        shark_hit == sharks > 0 /\ swimmers0 > 0
        shark_combos == IF shark_hit THEN Min(sharks, swimmers0) ELSE 0
        swimmers1 == swimmers0 - shark_combos
        leftover_sharks == sharks - Min(sharks, Get(cc, "swimmer", 0))
        jelly_hit == jellyfish > 0 /\ swimmers1 > 0
        jelly_combos == IF jelly_hit THEN Min(jellyfish, swimmers1) ELSE 0
        swimmers2 == swimmers1 - jelly_combos
        leftover_jellyfish == jellyfish - Min(jellyfish, Get(cc, "swimmer", 0))
        bd1 == AppendIf(st.score_breakdown, shark_hit,
                        Line("combo", "shark_swimmer", shark_combos, shark_combos))
        bd2 == AppendIf(bd1, leftover_sharks > 0, Line("leftover", "shark", leftover_sharks, 0))
        bd3 == AppendIf(bd2, jelly_hit,
                        Line("combo", "jellyfish_swimmer", jelly_combos, jelly_combos))
        bd4 == AppendIf(bd3, leftover_jellyfish > 0,
                        Line("leftover", "jellyfish", leftover_jellyfish, 0))
        bd5 == AppendIf(bd4, swimmers2 > 0, Line("leftover", "swimmer", swimmers2, 0))
    IN  [st EXCEPT !.total_score = @ + shark_combos + jelly_combos,
                   !.score_breakdown = bd5]

\* Crab+Lobster (lines 128-143)
ScoreCrabLobster(st) ==
    LET cc == st.card_counts
        crabs0 == Get(cc, "crab", 0)
        lobsters0 == Get(cc, "lobster", 0)
        hit == crabs0 > 0 /\ lobsters0 > 0
        combos == IF hit THEN Min(crabs0, lobsters0) ELSE 0
        crabs == crabs0 - combos
        lobsters == lobsters0 - combos
        leftover_crabs == crabs - Min(crabs, Get(cc, "lobster", 0))
        bd1 == AppendIf(st.score_breakdown, hit, Line("combo", "crab_lobster", combos, combos))
        bd2 == AppendIf(bd1, leftover_crabs > 0,
                        IF Get(cc, "basket", 0) > 0
                        THEN Line("leftover_basket", "crab", leftover_crabs, 0)
                        ELSE Line("leftover", "crab", leftover_crabs, 0))
        bd3 == AppendIf(bd2, lobsters > 0, Line("leftover", "lobster", lobsters, 0))
    IN  [st EXCEPT !.total_score = @ + combos, !.score_breakdown = bd3]

\* duo_pairs, in insertion order (lines 152-159)
DuoPairs(cc) ==
    << Get(cc, "crab", 0) \div 2,
       Get(cc, "boat", 0) \div 2,
       Get(cc, "fish", 0) \div 2,
       Min(Get(cc, "shark", 0), Get(cc, "swimmer", 0)),
       Min(Get(cc, "jellyfish", 0), Get(cc, "swimmer", 0)),
       Min(Get(cc, "crab", 0), Get(cc, "lobster", 0)) >>

\* the while loop of one duo_pairs entry (lines 163-167); acc = [starfish, used, trio_points]
RECURSIVE TrioWhile(_, _)
TrioWhile(num_duos, acc) ==
    IF num_duos > 0 /\ acc.starfish > 0
    THEN TrioWhile(num_duos - 1,
                   [starfish |-> acc.starfish - 1,
                    used_starfish |-> acc.used_starfish + 1,
                    trio_points |-> acc.trio_points + 3])
    ELSE acc

\* the for loop over duo_pairs (lines 162-167)
RECURSIVE TrioFor(_, _, _)
TrioFor(duo_pairs, i, acc) ==
    IF i > Len(duo_pairs) THEN acc
    ELSE TrioFor(duo_pairs, i + 1, TrioWhile(duo_pairs[i], acc))

\* starfish trio logic (lines 146-171)
ScoreStarfish(st) ==
    LET starfish == Get(st.card_counts, "starfish", 0) IN
    IF starfish > 0
    THEN LET acc == TrioFor(DuoPairs(st.card_counts), 1,
                            [starfish |-> starfish, used_starfish |-> 0, trio_points |-> 0])
         IN  IF acc.used_starfish > 0
             THEN [st EXCEPT !.total_score = @ + acc.trio_points,
                             !.score_breakdown =
                                 Append(@, Line("trio", "starfish", acc.used_starfish, acc.trio_points))]
             ELSE st
    ELSE st

\* the five multiplier rules: <<multiplier card, counted card, scalar>> (lines 174-197)
MULTIPLIERS == << <<"lighthouse", "boat", 1>>, <<"shoal", "fish", 1>>,
                  <<"colony", "penguin", 2>>, <<"captain", "sailor", 3>>,
                  <<"basket", "crab", 1>> >>

\* as ScoreMultipliers, adding the two counts instead of multiplying them
RECURSIVE ScoreMultipliers_Sum(_, _)
ScoreMultipliers_Sum(st, i) ==
    IF i > Len(MULTIPLIERS) THEN st
    ELSE LET m == MULTIPLIERS[i]
             cc == st.card_counts
         IN  IF m[1] \in DOMAIN cc /\ m[2] \in DOMAIN cc
             THEN LET points == (cc[m[1]] + cc[m[2]]) * m[3] IN
                  ScoreMultipliers_Sum(
                     [st EXCEPT !.total_score = @ + points,
                                !.score_breakdown = Append(@, Line("multiplier", m[1], cc[m[2]], points))],
                     i + 1)
             ELSE ScoreMultipliers_Sum(st, i + 1)

RECURSIVE ScoreMultipliers(_, _)
ScoreMultipliers(st, i) ==
    IF i > Len(MULTIPLIERS) THEN st
    ELSE LET m == MULTIPLIERS[i]
             cc == st.card_counts
         IN  IF m[1] \in DOMAIN cc /\ m[2] \in DOMAIN cc
             THEN LET points == cc[m[1]] * cc[m[2]] * m[3] IN
                  ScoreMultipliers(
                     [st EXCEPT !.total_score = @ + points,
                                !.score_breakdown = Append(@, Line("multiplier", m[1], cc[m[2]], points))],
                     i + 1)
             ELSE ScoreMultipliers(st, i + 1)

\* as FinalOutput, deciding by the total instead of the breakdown
FinalOutput_ByTotal(st) ==
    IF st.total_score = 0
    THEN [response_text |-> [msg |-> "no_scorable_cards"], card_counts |-> EmptyDict]
    ELSE [response_text |-> [msg |-> "breakdown",
                             score_breakdown |-> st.score_breakdown,
                             total_score |-> st.total_score],
          card_counts |-> st.card_counts]

\* final output (lines 200-211): <<response_text, card_counts>>
FinalOutput(st) ==
    IF st.score_breakdown = <<>>
    THEN [response_text |-> [msg |-> "no_scorable_cards"], card_counts |-> EmptyDict]
    ELSE [response_text |-> [msg |-> "breakdown",
                             score_breakdown |-> st.score_breakdown,
                             total_score |-> st.total_score],
          card_counts |-> st.card_counts]

\* the running state after all scoring steps (lines 57-197)
ScoreState(cc) ==
    ScoreMultipliers(
      ScoreStarfish(
        ScoreCrabLobster(
          ScoreSwimmerCombos(
            ScoreDuos(
              ScoreCollectors(
                ApplySeahorse([card_counts |-> cc, total_score |-> 0, score_breakdown |-> <<>>]),
                1),
              1)))),
      1)

\* as calculate_score, without the early return on no match
calculate_score_NoEarlyReturn(text) ==
    FinalOutput(ScoreState(CountCards(EmptyDict, FindCards(text), 1)))

calculate_score(text) ==
    LET matches == FindCards(text) IN
    IF matches = <<>>
    THEN [response_text |-> [msg |-> "no_valid_cards"], card_counts |-> EmptyDict]
    ELSE FinalOutput(ScoreState(CountCards(EmptyDict, matches, 1)))

(***************************************************************************)
(* calculate_color_bonus.                                                  *)
(***************************************************************************)
\* the longest run of ASCII letters at the start of a word: ([a-zA-Z]+)
RECURSIVE LetterRun(_)
LetterRun(w) ==
    IF w = <<>> \/ ~IsAsciiLetter(Head(w)) THEN <<>>
    ELSE <<Head(w)>> \o LetterRun(Tail(w))

\* pattern.findall(card_text.lower()) (lines 219-220): <<count, name>> of
\* every item whose lower-cased word starts with an ASCII letter
RECURSIVE FindColors(_)
FindColors(text) ==
    IF text = <<>> THEN <<>>
    ELSE LET count == Head(text)[1]
             name == LetterRun(Lower(Head(text)[2]))
         IN  (IF name # <<>> THEN << <<count, name>> >> ELSE <<>>)
                 \o FindColors(Tail(text))

MERMAID == Chars("mermaid")

\* "mermaid" in name (line 230)
IsMermaid(name) ==
    \E i \in 1..Len(name) :
        /\ i + Len(MERMAID) - 1 <= Len(name)
        /\ SubSeq(name, i, i + Len(MERMAID) - 1) = MERMAID

\* the for loop over matches (lines 225-233); acc = [mermaid_count, color_counts]
RECURSIVE ReadColors(_, _, _)
ReadColors(matches, i, acc) ==
    IF i > Len(matches) THEN acc
    ELSE IF IsMermaid(matches[i][2])
         THEN ReadColors(matches, i + 1, [acc EXCEPT !.mermaid_count = matches[i][1]])
         ELSE ReadColors(matches, i + 1,
                         [acc EXCEPT !.color_counts = Append(@, matches[i][1])])

\* insertion of x into a list sorted in descending order
RECURSIVE InsertDesc(_, _)
InsertDesc(x, sorted) ==
    IF sorted = <<>> THEN <<x>>
    ELSE IF x >= Head(sorted) THEN <<x>> \o sorted
         ELSE <<Head(sorted)>> \o InsertDesc(x, Tail(sorted))

\* list.sort(reverse=True)
RECURSIVE SortDesc(_)
SortDesc(list) ==
    IF list = <<>> THEN <<>> ELSE InsertDesc(Head(list), SortDesc(Tail(list)))

\* sum(list)
RECURSIVE Sum(_)
Sum(list) == IF list = <<>> THEN 0 ELSE Head(list) + Sum(Tail(list))

\* max(list), list not empty
RECURSIVE MaxOf(_)
MaxOf(list) ==
    IF Len(list) = 1 THEN list[1]
    ELSE LET m == MaxOf(Tail(list)) IN IF Head(list) >= m THEN Head(list) ELSE m

\* as RawBonus, taking the first groups without sorting them
RawBonus_NoSort(mermaid_count, color_counts) ==
    IF mermaid_count >= 1
    THEN LET groups_to_score == Min(mermaid_count, Len(color_counts))
             selected_groups == SubSeq(color_counts, 1, groups_to_score)
         IN  [bonus_points |-> Sum(selected_groups),
              explanation |-> <<"mermaids", mermaid_count, groups_to_score>>]
    ELSE [bonus_points |-> IF color_counts # <<>> THEN MaxOf(color_counts) ELSE 0,
          explanation |-> <<"no_mermaids">>]

\* the raw bonus (lines 235-251): [bonus_points, explanation]
RawBonus(mermaid_count, color_counts) ==
    IF mermaid_count >= 1
    THEN LET sorted == SortDesc(color_counts)
             groups_to_score == Min(mermaid_count, Len(sorted))
             selected_groups == SubSeq(sorted, 1, groups_to_score)
         IN  [bonus_points |-> Sum(selected_groups),
              explanation |-> <<"mermaids", mermaid_count, groups_to_score>>]
    ELSE [bonus_points |-> IF color_counts # <<>> THEN MaxOf(color_counts) ELSE 0,
          explanation |-> <<"no_mermaids">>]

\* as Distribute, zeroing the bonus of every player who is not the caller
Distribute_OpponentsZero(raw, is_caller, succeeded) ==
    IF is_caller
    THEN IF succeeded
         THEN [raw EXCEPT !.explanation = Append(@, "caller_succeeded")]
         ELSE [raw EXCEPT !.explanation = Append(@, "caller_failed")]
    ELSE [bonus_points |-> 0,
          explanation |-> Append(raw.explanation,
                                 IF succeeded THEN "other_succeeded" ELSE "other_failed")]

\* distribution by outcome (lines 253-265)
Distribute(raw, is_caller, succeeded) ==
    IF is_caller
    THEN IF succeeded
         THEN [raw EXCEPT !.explanation = Append(@, "caller_succeeded")]
         ELSE [raw EXCEPT !.explanation = Append(@, "caller_failed")]
    ELSE IF succeeded
         THEN [raw EXCEPT !.explanation = Append(@, "other_succeeded")]
         ELSE [bonus_points |-> 0, explanation |-> Append(raw.explanation, "other_failed")]

\* as calculate_color_bonus, without the early return on Stop
calculate_color_bonus_NoStop(text, last_chance, is_caller, succeeded) ==
    LET matches == FindColors(text) IN
    IF matches = <<>>
    THEN [bonus_points |-> 0, explanation |-> <<"usage">>]
    ELSE LET acc == ReadColors(matches, 1, [mermaid_count |-> 0, color_counts |-> <<>>])
         IN  Distribute(RawBonus(acc.mermaid_count, acc.color_counts), is_caller, succeeded)

calculate_color_bonus(text, last_chance, is_caller, succeeded) ==
    IF ~last_chance
    THEN [bonus_points |-> 0, explanation |-> <<"stop">>]
    ELSE LET matches == FindColors(text) IN
         IF matches = <<>>
         THEN [bonus_points |-> 0, explanation |-> <<"usage">>]
         ELSE LET acc == ReadColors(matches, 1, [mermaid_count |-> 0, color_counts |-> <<>>])
              IN  Distribute(RawBonus(acc.mermaid_count, acc.color_counts),
                             is_caller, succeeded)

(***************************************************************************)
(* Inputs.  A score text lists some of the words of one hand, each with a  *)
(* count; a color text lists color groups and mermaid items.  The words of *)
(* the last two hands are spelled in ways the parsing has to deal with:    *)
(* capitals, a plural the map lacks, a longer word that starts with a card *)
(* name, a word that is no card, and words with U+017F, U+212A and U+0130  *)
(* in the place of s, k and i.                                             *)
(***************************************************************************)
Hands == { <<Chars("shell"), Chars("octopus"), Chars("penguin"), Chars("sailor"),
             Chars("seahorse")>>,
           <<Chars("penguin"), Chars("colony"), Chars("sailor"), Chars("captain"),
             Chars("seahorse")>>,
           <<Chars("boat"), Chars("fish"), Chars("lighthouse"), Chars("shoal"),
             Chars("starfish")>>,
           <<Chars("crab"), Chars("lobster"), Chars("basket"), Chars("starfish"),
             Chars("crabs, ")>>,
           <<Chars("shark"), Chars("swimmer"), Chars("jellyfish"), Chars("starfish"),
             Chars("lobster")>>,
           <<Chars("Crabs"), Chars("mermaid"), Chars("Shoal Of Fish"), Chars("shellfish")>>,
           <<Chars("sharks"), <<383>> \o Chars("hell"), Chars("shar") \o <<8490>>,
             Chars("sw") \o <<304>> \o Chars("mmer")>> }

RECURSIVE TextOf(_, _, _)
TextOf(hand, h, i) ==
    IF i > Len(hand) THEN <<>>
    ELSE (IF i \in DOMAIN h THEN << <<h[i], hand[i]>> >> ELSE <<>>) \o TextOf(hand, h, i + 1)

ColorCounts == 0..MaxColorCount

\* color words beside "blue": capitals, a name cut at a space, and a word
\* that starts with no ASCII letter
OddColorWords == { Chars("RED"), Chars("mer maid"), <<383>> \o Chars("ea") }

ColorParts ==
    UNION { [1..n -> ColorCounts \X {Chars("blue")}] : n \in 0..MaxColors }

MermaidParts ==
    {<<>>} \cup { << <<m, Chars("mermaid")>> >> : m \in ColorCounts }
           \cup { << <<m, Chars("mermaid")>>, <<n, Chars("Mermaids")>> >> :
                      m \in ColorCounts, n \in ColorCounts }

\* words that hold "mermaid" among other letters
OddMermaidWords == { Chars("MERMAID"), Chars("supermermaid"), Chars("mermaidz") }

\* a color group and a mermaid item spelled in those ways
OddTexts ==
    { << <<c, w>>, <<m, v>> >> :
        c \in ColorCounts, m \in ColorCounts,
        w \in OddColorWords \cup {Chars("blue")}, v \in OddMermaidWords }

NoResult == [none |-> TRUE]

(***************************************************************************)
(* /score: the text is scored.                                             *)
(***************************************************************************)
InitScore ==
    /\ \E hand \in Hands : \E P \in SUBSET (1..Len(hand)) : \E h \in [P -> Counts] :
          card_text = TextOf(hand, h, 1)
    /\ called_last_chance = TRUE
    /\ caller = TRUE
    /\ caller_succeeded = TRUE
    /\ pc = "start"
    /\ result = NoResult
    /\ user_data = EmptyDict
    /\ sent = <<>>

Score ==
    /\ pc = "start"
    /\ result' = calculate_score(card_text)
    /\ pc' = "done"
    /\ UNCHANGED <<card_text, called_last_chance, caller, caller_succeeded, user_data, sent>>

NextScore == Score

SpecScore == InitScore /\ [][NextScore]_vars

(***************************************************************************)
(* Color bonus: the text is scored under the three outcome flags.          *)
(***************************************************************************)
InitBonus ==
    /\ \/ \E c \in ColorParts, m \in MermaidParts : card_text \in {c \o m, m \o c}
       \/ card_text \in OddTexts
    /\ called_last_chance \in BOOLEAN
    /\ caller \in BOOLEAN
    /\ caller_succeeded \in BOOLEAN
    /\ pc = "start"
    /\ result = NoResult
    /\ user_data = EmptyDict
    /\ sent = <<>>

ColorBonus ==
    /\ pc = "start"
    /\ result' = calculate_color_bonus(card_text, called_last_chance, caller, caller_succeeded)
    /\ pc' = "done"
    /\ UNCHANGED <<card_text, called_last_chance, caller, caller_succeeded, user_data, sent>>

NextBonus == ColorBonus

SpecBonus == InitBonus /\ [][NextBonus]_vars

(***************************************************************************)
(* The Telegram /color_bonus flow of one user (telegram_handlers.py).      *)
(* A command argument is [blank, items]: whether the stripped text after   *)
(* the command is empty, and its <<count, word>> items.  user_data is the  *)
(* user's dict; sent is the list of the arguments sent so far.  card_text, *)
(* the three flags and result are those of the call the latest handler run *)
(* made to calculate_color_bonus, result being NoResult when it made none. *)
(***************************************************************************)
BlankInput == [blank |-> TRUE, items |-> <<>>]

BotTexts ==
    {<<>>} \cup { << <<c, Chars("blue")>> >> : c \in 1..MaxBotCount }
           \cup { << <<c, Chars("Blue, ")>>, <<m, Chars("mermaid")>> >> :
                      c \in 1..MaxBotCount, m \in 1..MaxBotCount }

BotInputs == {BlankInput} \cup { [blank |-> FALSE, items |-> t] : t \in BotTexts }

ButtonData == {"color_bonus_caller_win", "color_bonus_caller_fail",
               "color_bonus_other_win", "color_bonus_stop"}

InitBot ==
    /\ user_data = EmptyDict
    /\ sent = <<>>
    /\ card_text = <<>>
    /\ called_last_chance = TRUE
    /\ caller = TRUE
    /\ caller_succeeded = TRUE
    /\ pc = "idle"
    /\ result = NoResult

\* color_bonus (lines 137-171)
color_bonus(user_input) ==
    /\ Len(sent) < MaxCommands
    /\ sent' = Append(sent, user_input)
    /\ IF user_input.blank
       THEN /\ pc' = "usage_sent"
            /\ UNCHANGED user_data
       ELSE /\ user_data' = [k \in DOMAIN user_data \cup {"color_bonus_input"} |->
                                 IF k = "color_bonus_input" THEN user_input ELSE user_data[k]]
            /\ pc' = "keyboard_sent"
    /\ card_text' = <<>>
    /\ called_last_chance' = TRUE
    /\ caller' = TRUE
    /\ caller_succeeded' = TRUE
    /\ result' = NoResult

\* as ChoiceFlags, clearing caller_succeeded too on "other wins"
ChoiceFlags_OtherClearsBoth(data) ==
    CASE data = "color_bonus_stop" -> <<FALSE, TRUE, TRUE>>
      [] data = "color_bonus_caller_fail" -> <<TRUE, TRUE, FALSE>>
      [] data = "color_bonus_other_win" -> <<TRUE, FALSE, FALSE>>
      [] OTHER -> <<TRUE, TRUE, TRUE>>

\* <<called_last_chance, caller, caller_succeeded>> of a button (lines 185-199)
ChoiceFlags(data) ==
    CASE data = "color_bonus_stop" -> <<FALSE, TRUE, TRUE>>
      [] data = "color_bonus_caller_fail" -> <<TRUE, TRUE, FALSE>>
      [] data = "color_bonus_other_win" -> <<TRUE, FALSE, TRUE>>
      [] OTHER -> <<TRUE, TRUE, TRUE>>

\* handle_color_bonus_choice (lines 174-220)
handle_color_bonus_choice(data) ==
    LET user_input == Get(user_data, "color_bonus_input", BlankInput)
        flags == ChoiceFlags(data)
    IN  /\ IF user_input.blank
           THEN /\ pc' = "asked_again"
                /\ card_text' = <<>>
                /\ called_last_chance' = TRUE
                /\ caller' = TRUE
                /\ caller_succeeded' = TRUE
                /\ result' = NoResult
           ELSE /\ pc' = "computed"
                /\ card_text' = user_input.items
                /\ called_last_chance' = flags[1]
                /\ caller' = flags[2]
                /\ caller_succeeded' = flags[3]
                /\ result' = calculate_color_bonus(user_input.items,
                                                   flags[1], flags[2], flags[3])
        /\ UNCHANGED <<user_data, sent>>

NextBot ==
    \/ \E user_input \in BotInputs : color_bonus(user_input)
    \/ \E data \in ButtonData : handle_color_bonus_choice(data)

SpecBot == InitBot /\ [][NextBot]_vars

(***************************************************************************)
(* Vocabulary of the properties.                                           *)
(***************************************************************************)
Done == pc = "done"

\* the card an item counts for, "" when it counts for none
CardOf(it) ==
    LET n == MatchLen(it[2])
        canonical == canonical_name(SubSeq(it[2], 1, n))
    IN  IF n > 0 /\ canonical # <<>> THEN canonical[1] ELSE ""

\* the counts the text gives, per canonical card
Given == CountCards(EmptyDict, FindCards(card_text), 1)
Has(card) == card \in DOMAIN Given
Num(card) == Get(Given, card, 0)

IsBreakdown == Done /\ result.response_text.msg = "breakdown"
NoScorable == Done /\ result.response_text.msg = "no_scorable_cards"
Breakdown == IF IsBreakdown THEN result.response_text.score_breakdown ELSE <<>>
HasLine(rule, card, n, pts) == \E i \in DOMAIN Breakdown : Breakdown[i] = Line(rule, card, n, pts)
LinesOn(rule, card) == { i \in DOMAIN Breakdown : Breakdown[i].rule = rule /\ Breakdown[i].card = card }

\* the total a response reports, 0 when it reports none
TotalOf(r) == IF r.response_text.msg = "breakdown" THEN r.response_text.total_score ELSE 0

(***************************************************************************)
(* C1                                                                      *)
(***************************************************************************)
\* No rule has anything to say about the given cards: no collector type is
\* named, there are fewer than two boats and fewer than two fish, no crab,
\* lobster, shark, swimmer or jellyfish, and no multiplier card is named
\* together with the card it counts.
NoRuleSpeaks ==
    LET given == Given
        num(card) == Get(given, card, 0)
        has(card) == card \in DOMAIN given
    IN  /\ \A i \in DOMAIN COLLECTOR_TYPES : ~has(COLLECTOR_TYPES[i])
        /\ num("boat") < 2 /\ num("fish") < 2
        /\ num("crab") = 0 /\ num("lobster") = 0
        /\ num("shark") = 0 /\ num("swimmer") = 0 /\ num("jellyfish") = 0
        /\ \A i \in DOMAIN MULTIPLIERS :
               ~(has(MULTIPLIERS[i][1]) /\ has(MULTIPLIERS[i][2]))

\* C1 as claimed: when the recognized cards earn no point from any rule, the
\* result is the "no scorable cards" outcome, never a breakdown with total 0.
C1_Original ==
    Done => ~(IsBreakdown /\ result.response_text.total_score = 0)

\* C1 amended: with at least one card name found, the "no scorable cards"
\* outcome (with an empty count map) is returned exactly when no rule emits
\* a breakdown line; otherwise a breakdown is returned, with a total of 0
\* when all its lines are zero-point lines.
C1_Amended ==
    (Done /\ FindCards(card_text) # <<>>) =>
        /\ NoScorable <=> NoRuleSpeaks
        /\ NoScorable => result.card_counts = EmptyDict
        /\ ~NoScorable =>
              /\ IsBreakdown /\ Breakdown # <<>>
              /\ (\A i \in DOMAIN Breakdown : Breakdown[i].pts = 0)
                     <=> result.response_text.total_score = 0

\* a single shell: a breakdown of one zero-point line and a total of 0
C1_Witness ==
    /\ Done /\ card_text = << <<1, Chars("shell")>> >>
    /\ IsBreakdown /\ result.response_text.total_score = 0
    /\ Breakdown = << Line("collector", "shell", 1, 0) >>

(***************************************************************************)
(* C2                                                                      *)
(***************************************************************************)
\* a word holds a known card name: lower-cased, it starts with a key of
\* CARD_MAP
NamesCard(word) ==
    \E n \in NameLengths : n <= Len(Lower(word)) /\ SubSeq(Lower(word), 1, n) \in CardNames

\* C2 as claimed: a text with no <integer> <known card name> pair gets the
\* fixed guidance message and an empty count map, and no score or breakdown.
C2_NoValidCards ==
    (Done /\ \A i \in DOMAIN card_text : ~NamesCard(card_text[i][2])) =>
        /\ result.response_text = [msg |-> "no_valid_cards"]
        /\ result.card_counts = EmptyDict

\* the part of C2 about the texts in which the pattern of line 46 finds
\* nothing: the fixed guidance message and an empty count map
C2_NoMatch ==
    (Done /\ FindCards(card_text) = <<>>) =>
        /\ result.response_text = [msg |-> "no_valid_cards"]
        /\ result.card_counts = EmptyDict

\* the texts in which the pattern finds names that are keys of CARD_MAP
\* under IGNORECASE only: no card is counted, and the message is the one
\* for cards that score nothing
C2_MatchedButUnknown ==
    (Done /\ FindCards(card_text) # <<>> /\ Given = EmptyDict) =>
        /\ result.response_text = [msg |-> "no_scorable_cards"]
        /\ result.card_counts = EmptyDict

C2_Witness ==
    /\ Done /\ card_text = << <<2, Chars("mermaid")>> >>
    /\ result.response_text.msg = "no_valid_cards"

\* "2 \u017Fhell": a name is found, no card is counted
C2_WitnessUnknown ==
    /\ Done /\ card_text = << <<2, <<383>> \o Chars("hell")>> >>
    /\ result.response_text.msg = "no_scorable_cards"

(***************************************************************************)
(* C3                                                                      *)
(***************************************************************************)
\* the text without its starfish items
WithoutStarfish(text) == SelectSeq(text, LAMBDA it : CardOf(it) # "starfish")

\* the number of conversions the breakdown reports
TrioCount ==
    IF LinesOn("trio", "starfish") = {} THEN 0
    ELSE Breakdown[CHOOSE i \in LinesOn("trio", "starfish") : TRUE].n

\* C3 as claimed: with k starfish conversions applied the total is exactly
\* 2*k higher than the total of the same cards without any starfish.
C3_NetGainTwo ==
    (IsBreakdown /\ TrioCount >= 1) =>
        result.response_text.total_score
            = TotalOf(calculate_score(WithoutStarfish(card_text))) + 2 * TrioCount

(***************************************************************************)
(* C4                                                                      *)
(***************************************************************************)
OddDuo(card) == Has(card) /\ Num(card) % 2 = 1

\* points of the pairs lines of a card
PairsPoints(card) ==
    IF LinesOn("pairs", card) = {} THEN 0
    ELSE Breakdown[CHOOSE i \in LinesOn("pairs", card) : TRUE].pts

\* C4 as claimed: an odd count n of a duo card contributes n // 2 points and
\* the unpaired card is reported as a zero-point leftover line.
C4_Original ==
    Done => \A i \in DOMAIN DUO_CARDS :
        OddDuo(DUO_CARDS[i]) =>
            /\ PairsPoints(DUO_CARDS[i]) = Num(DUO_CARDS[i]) \div 2
            /\ HasLine("leftover", DUO_CARDS[i], 1, 0)

\* C4 amended: an odd count n of a duo card contributes n // 2 points, as
\* one pairs line when n >= 3 and no line when n = 1; the unpaired card has
\* no line of its own: boat and fish never get a leftover line, and the only
\* leftover Crab line is the Crab+Lobster step's, which without lobsters
\* counts all n crabs.
C4_Amended ==
    Done => \A i \in DOMAIN DUO_CARDS :
        LET card == DUO_CARDS[i]
            n == Num(card)
        IN  n % 2 = 1 =>
            /\ PairsPoints(card) = n \div 2
            /\ Cardinality(LinesOn("pairs", card)) = (IF n >= 3 THEN 1 ELSE 0)
            /\ card # "crab" => LinesOn("leftover", card) = {}
            /\ (card = "crab" /\ Num("lobster") = 0) =>
                   IF Num("basket") > 0
                   THEN HasLine("leftover_basket", "crab", n, 0)
                   ELSE HasLine("leftover", "crab", n, 0)

\* three boats: one pair for one point and nothing about the third boat
C4_Witness ==
    /\ Done /\ Num("boat") = 3
    /\ HasLine("pairs", "boat", 1, 1)
    /\ LinesOn("leftover", "boat") = {}

(***************************************************************************)
(* C5                                                                      *)
(***************************************************************************)
\* units left unmatched by the combo pairing, sharks served before jellyfish
SharkCombos == Min(Num("shark"), Num("swimmer"))
JellyCombos == Min(Num("jellyfish"), Num("swimmer") - SharkCombos)
CrabCombos == Min(Num("crab"), Num("lobster"))

Unmatched(card) ==
    CASE card = "shark" -> Num("shark") - SharkCombos
      [] card = "jellyfish" -> Num("jellyfish") - JellyCombos
      [] card = "swimmer" -> Num("swimmer") - SharkCombos - JellyCombos
      [] card = "crab" -> Num("crab") - CrabCombos
      [] card = "lobster" -> Num("lobster") - CrabCombos

\* C5 as claimed: every unit of a combo type left unmatched is reported as a
\* zero-point leftover line with the unmatched count.
C5_LeftoversReported ==
    Done => \A card \in {"shark", "jellyfish", "swimmer", "crab", "lobster"} :
        Unmatched(card) > 0 =>
            \/ HasLine("leftover", card, Unmatched(card), 0)
            \/ HasLine("leftover_basket", card, Unmatched(card), 0)

(***************************************************************************)
(* C6                                                                      *)
(***************************************************************************)
OnlyLighthouseAndBoat ==
    /\ DOMAIN Given = {"lighthouse", "boat"}
    /\ Num("lighthouse") >= 1 /\ Num("boat") >= 1

\* C6 as claimed: L lighthouses and B boats alone give one line worth L*B
\* and a total of L*B.
C6_Original ==
    (Done /\ OnlyLighthouseAndBoat) =>
        /\ IsBreakdown
        /\ Len(Breakdown) = 1
        /\ Breakdown[1].pts = Num("lighthouse") * Num("boat")
        /\ result.response_text.total_score = Num("lighthouse") * Num("boat")

\* C6 amended: L lighthouses and B boats alone give the Lighthouse + Boats
\* line worth L*B, preceded when B >= 2 by one pairs line worth B // 2, and
\* a total of L*B + B // 2.
C6_Amended ==
    (Done /\ OnlyLighthouseAndBoat) =>
        LET L == Num("lighthouse")
            B == Num("boat")
        IN  /\ IsBreakdown
            /\ Breakdown = (IF B >= 2 THEN << Line("pairs", "boat", B \div 2, B \div 2) >>
                                      ELSE <<>>)
                           \o << Line("multiplier", "lighthouse", B, L * B) >>
            /\ result.response_text.total_score = L * B + B \div 2

\* "3 lighthouse, 2 boat": a pair worth 1 and the multiplier worth 6, total 7
C6_Witness ==
    /\ Done /\ OnlyLighthouseAndBoat
    /\ Num("lighthouse") = 3 /\ Num("boat") = 2
    /\ Len(Breakdown) = 2
    /\ result.response_text.total_score = 7

(***************************************************************************)
(* C7                                                                      *)
(***************************************************************************)
LastIndex(card) == Len(COLLECTOR_POINTS_MAP[card]) - 1

\* the text with the count of a card set to n
WithCount(text, card, n) ==
    SelectSeq(text, LAMBDA it : CardOf(it) # card) \o << <<n, CardChars[card]>> >>

AtLastIndex(card) == calculate_score(WithCount(card_text, card, LastIndex(card)))

\* the multiplier card that counts a collector type, and its scalar
MultiplierOf(card) == IF card = "penguin" THEN "colony" ELSE "captain"
ScalarOf(card) == IF card = "penguin" THEN 2 ELSE 3

CollectorLines(bd, card) ==
    SelectSeq(bd, LAMBDA l : l.rule = "collector" /\ l.card = card)

\* C7 as claimed: a collector count above the last index of its table scores
\* the same as the count equal to that last index, the other cards being equal.
C7_Original ==
    Done => \A i \in DOMAIN COLLECTOR_TYPES :
        LET card == COLLECTOR_TYPES[i] IN
        Num(card) > LastIndex(card) => TotalOf(result) = TotalOf(AtLastIndex(card))

\* C7 amended: for shell and octopus a count above the last index gives the
\* same response as the count equal to the last index; for penguin and sailor
\* the collector line is the same and the total is higher by 2 * colony
\* (3 * captain) per card above the last index when a colony (captain) is
\* named, and the same otherwise.
C7_Amended ==
    Done => \A i \in DOMAIN COLLECTOR_TYPES :
        LET card == COLLECTOR_TYPES[i]
            n == Num(card)
            at_last == AtLastIndex(card)
        IN  n > LastIndex(card) =>
            /\ IsBreakdown
            /\ CollectorLines(Breakdown, card)
                   = << Line("collector", card, LastIndex(card),
                             At(COLLECTOR_POINTS_MAP[card], LastIndex(card))) >>
            /\ CollectorLines(at_last.response_text.score_breakdown, card)
                   = CollectorLines(Breakdown, card)
            /\ card \in {"shell", "octopus"} =>
                   result.response_text = at_last.response_text
            /\ card \in {"penguin", "sailor"} =>
                   TotalOf(result) = TotalOf(at_last)
                       + Num(MultiplierOf(card)) * ScalarOf(card) * (n - LastIndex(card))

\* ten shells beside other cards score as six shells do
C7_Witness ==
    /\ Done /\ Num("shell") = BigCount /\ Num("octopus") > 0
    /\ HasLine("collector", "shell", 6, 10)
    /\ result.response_text = AtLastIndex("shell").response_text

(***************************************************************************)
(* C8 - C10: the color bonus.                                              *)
(***************************************************************************)
\* of the <<count, name>> pairs a text gives, those that name mermaids and
\* those that name color groups
MermaidItems(given) == { i \in DOMAIN given : IsMermaid(given[i][2]) }
ColorItems(given) == DOMAIN given \ MermaidItems(given)

\* the mermaid count of a text: that of its last mermaid item, else 0
MermaidGiven(given) ==
    LET items == MermaidItems(given)
    IN  IF items = {} THEN 0
        ELSE given[CHOOSE i \in items : \A j \in items : j <= i][1]

RECURSIVE SumOver(_, _)
SumOver(given, S) ==
    IF S = {} THEN 0
    ELSE LET i == CHOOSE j \in S : TRUE IN given[i][1] + SumOver(given, S \ {i})

\* the sum of the k largest color groups: the best sum any k groups reach
TopSum(given, k) ==
    LET sums == { SumOver(given, S) :
                    S \in { T \in SUBSET ColorItems(given) : Cardinality(T) = k } }
    IN  CHOOSE x \in sums : \A y \in sums : y <= x

\* the raw bonus the claims give a text
ExpectedRawOf(given) ==
    LET mermaids == MermaidGiven(given)
        groups == Cardinality(ColorItems(given))
    IN  IF mermaids >= 1 THEN TopSum(given, Min(mermaids, groups))
        ELSE IF groups = 0 THEN 0 ELSE TopSum(given, 1)

ExpectedRaw == LET given == FindColors(card_text) IN ExpectedRawOf(given)

\* C8: with all three flags true, N >= 1 mermaids give the sum of the
\* min(N, number of groups) largest color groups, and no mermaid gives the
\* largest color group, or 0 without any color group.
C8_RawBonus ==
    (Done /\ called_last_chance /\ caller /\ caller_succeeded) =>
        result.bonus_points = ExpectedRaw

\* colors 4, 3, 1 and 2 mermaids give 7
C8_Witness ==
    /\ Done /\ called_last_chance /\ caller /\ caller_succeeded
    /\ card_text = << <<4, Chars("blue")>>, <<3, Chars("blue")>>, <<1, Chars("blue")>>,
                       <<2, Chars("mermaid")>> >>
    /\ result.bonus_points = 7

\* C9: with called_last_chance true, the bonus is 0 when caller and
\* caller_succeeded are both false, and the raw bonus in the other three cases.
C9_Distribution ==
    (Done /\ called_last_chance) =>
        result.bonus_points = (IF ~caller /\ ~caller_succeeded THEN 0 ELSE ExpectedRaw)

\* an opponent of a failed caller, holding colors, gets 0
C9_Witness ==
    /\ Done /\ called_last_chance /\ ~caller /\ ~caller_succeeded
    /\ ExpectedRaw > 0
    /\ result.bonus_points = 0

\* C10: with called_last_chance false the bonus is 0, whatever the text and
\* the other two flags.
C10_StopScoresNothing ==
    (Done /\ ~called_last_chance) => result.bonus_points = 0

\* a round ended with Stop, with colors that would score otherwise
C10_Witness ==
    /\ Done /\ ~called_last_chance /\ caller /\ caller_succeeded
    /\ ExpectedRaw > 0
    /\ result.bonus_points = 0

(***************************************************************************)
(* C11                                                                     *)
(***************************************************************************)
\* marginal gain of one more card of a collector type, held or not
StepGain(cc, card) ==
    LET table == COLLECTOR_POINTS_MAP[card]
        count == Get(cc, card, 0)
    IN  At(table, Min(count + 1, Len(table) - 1)) - At(table, Min(count, Len(table) - 1))

\* the first collector type, in the order of COLLECTOR_TYPES, of largest gain
BestStep(cc) ==
    COLLECTOR_TYPES[CHOOSE i \in DOMAIN COLLECTOR_TYPES :
        /\ \A j \in DOMAIN COLLECTOR_TYPES :
               StepGain(cc, COLLECTOR_TYPES[j]) <= StepGain(cc, COLLECTOR_TYPES[i])
        /\ \A j \in 1..(i - 1) :
               StepGain(cc, COLLECTOR_TYPES[j]) < StepGain(cc, COLLECTOR_TYPES[i])]

\* the substitution lines of k seahorses handled one at a time
RECURSIVE Substitutions(_, _)
Substitutions(cc, k) ==
    IF k = 0 \/ StepGain(cc, BestStep(cc)) <= 0 THEN <<>>
    ELSE << Line("seahorse", BestStep(cc), 1, StepGain(cc, BestStep(cc))) >>
            \o Substitutions(AddCount(cc, BestStep(cc), 1), k - 1)

SeahorseLines == SelectSeq(Breakdown, LAMBDA l : l.rule = "seahorse")

\* C11 as claimed: every seahorse is handled, one at a time, each going to
\* the collector type of largest strictly positive marginal gain (first
\* maximum wins), with one breakdown line per substitution ahead of the
\* collector lines and the seahorse count lowered by one each time.
C11_EverySeahorse ==
    (Done /\ Num("seahorse") > 0) =>
        /\ SeahorseLines = Substitutions(Given, Num("seahorse"))
        /\ SubSeq(Breakdown, 1, Len(SeahorseLines)) = SeahorseLines
        /\ IsBreakdown =>
               result.card_counts["seahorse"] = Num("seahorse") - Len(SeahorseLines)

(***************************************************************************)
(* C12                                                                     *)
(***************************************************************************)
\* the count a multiplier rule is claimed to read for its counted card: the
\* count after substitution, and for crabs what Crab+Lobster left of them
ClaimedCounted(card) ==
    IF card = "crab" THEN result.card_counts["crab"] - CrabCombos
    ELSE result.card_counts[card]

MultiplierPoints(card) ==
    { Breakdown[i].pts : i \in LinesOn("multiplier", card) }

\* C12 as claimed: each multiplier contributes count(X) * count(Y) * scalar
\* on the counts after substitution, and the Basket multiplier reads the
\* crabs left after the Crab+Lobster combos, not the original crab count.
C12_MultipliersReadRemainingCounts ==
    IsBreakdown => \A i \in DOMAIN MULTIPLIERS :
        LET m == MULTIPLIERS[i] IN
        (Has(m[1]) /\ Has(m[2])) =>
            MultiplierPoints(m[1])
                = { result.card_counts[m[1]] * ClaimedCounted(m[2]) * m[3] }

\* the part of C12 about the four multipliers whose counted card no combo
\* consumes, kept apart from the Basket
C12_OtherMultipliers ==
    IsBreakdown => \A i \in DOMAIN MULTIPLIERS :
        LET m == MULTIPLIERS[i] IN
        (Has(m[1]) /\ Has(m[2]) /\ m[1] # "basket") =>
            MultiplierPoints(m[1])
                = { result.card_counts[m[1]] * result.card_counts[m[2]] * m[3] }

(***************************************************************************)
(* C13                                                                     *)
(***************************************************************************)
RECURSIVE UnitsIn(_)
UnitsIn(bd) ==
    IF bd = <<>> THEN 0
    ELSE (IF Head(bd).rule \in {"pairs", "combo"} THEN Head(bd).n ELSE 0) + UnitsIn(Tail(bd))

\* the duo and combo units the breakdown scores
ScoredUnits == UnitsIn(Breakdown)

\* C13 as claimed: the number of starfish conversions applied is
\* min(starfish count, duo and combo units actually scored); no conversion
\* is applied to a unit that was not scored.
C13_ConversionsWithinScoredUnits ==
    (Done /\ Num("starfish") > 0) =>
        TrioCount = Min(Num("starfish"), ScoredUnits)

(***************************************************************************)
(* C14                                                                     *)
(***************************************************************************)
\* the number of combos of a kind the breakdown scores, 0 without a line
CombosScored(kind) ==
    IF LinesOn("combo", kind) = {} THEN 0
    ELSE Breakdown[CHOOSE i \in LinesOn("combo", kind) : TRUE].n

\* C14: each combo count is the minimum of the two counts still available
\* (the swimmers used by sharks are not available to jellyfish), each combo
\* scores one point, and Shark+Swimmer plus Jellyfish+Swimmer combos never
\* exceed the swimmer count.
C14_ComboPairing ==
    Done =>
        LET given == Given
            num(card) == Get(given, card, 0)
        IN
        /\ CombosScored("shark_swimmer") = Min(num("shark"), num("swimmer"))
        /\ CombosScored("jellyfish_swimmer")
               = Min(num("jellyfish"), num("swimmer") - CombosScored("shark_swimmer"))
        /\ CombosScored("crab_lobster") = Min(num("crab"), num("lobster"))
        /\ CombosScored("shark_swimmer") + CombosScored("jellyfish_swimmer") <= num("swimmer")
        /\ \A i \in DOMAIN Breakdown :
               Breakdown[i].rule = "combo" =>
                   /\ Breakdown[i].pts = Breakdown[i].n
                   /\ Cardinality(LinesOn("combo", Breakdown[i].card)) = 1

\* two sharks take two of three swimmers and leave one for two jellyfish
C14_Witness ==
    /\ Done /\ Num("shark") = 2 /\ Num("swimmer") = 3 /\ Num("jellyfish") = 2
    /\ HasLine("combo", "shark_swimmer", 2, 2)
    /\ HasLine("combo", "jellyfish_swimmer", 1, 1)

(***************************************************************************)
(* C15                                                                     *)
(***************************************************************************)
\* the places of sent that hold a non-empty argument
NonBlankSent == { i \in DOMAIN sent : ~sent[i].blank }

\* the latest non-empty argument sent
LatestInput == sent[CHOOSE i \in NonBlankSent : \A j \in NonBlankSent : j <= i]

\* C15: a button press with no stored input only asks for /color_bonus again
\* and computes nothing; otherwise it computes over the latest non-empty
\* input, under flags (T,T,T), (T,T,F), (T,F,T) or (F,T,T), never with
\* caller and caller_succeeded both false; the commands compute nothing.
C15_BotFlow ==
    /\ pc = "asked_again" => (NonBlankSent = {} /\ result = NoResult)
    /\ pc \in {"usage_sent", "keyboard_sent"} => result = NoResult
    /\ pc = "computed" =>
          /\ NonBlankSent # {}
          /\ card_text = LatestInput.items
          /\ <<called_last_chance, caller, caller_succeeded>>
                 \in { <<TRUE, TRUE, TRUE>>, <<TRUE, TRUE, FALSE>>,
                       <<TRUE, FALSE, TRUE>>, <<FALSE, TRUE, TRUE>> }
          /\ ~(~caller /\ ~caller_succeeded)
          /\ result.bonus_points = (IF called_last_chance THEN ExpectedRaw ELSE 0)

\* "other wins" pressed after two different inputs and an empty command:
\* the bonus is that of the second input
C15_Witness ==
    /\ pc = "computed" /\ Len(sent) = 3
    /\ ~sent[1].blank /\ ~sent[2].blank /\ sent[3].blank
    /\ sent[1] # sent[2]
    /\ card_text = sent[2].items
    /\ called_last_chance /\ ~caller /\ caller_succeeded
    /\ result.bonus_points > 0

\* a button pressed while nothing is stored
C15_WitnessNothingStored ==
    pc = "asked_again" /\ Len(sent) > 0

====
